---- MODULE Spec2Model ----
(***************************************************************************)
(* Model of find_similar_cases (src/irving_commerce.py, lines 29-63), the  *)
(* similar-case fee estimator of the Irving commercial-permits dashboard.  *)
(*                                                                         *)
(* A data frame is modelled as the sequence of its rows together with the  *)
(* set of its column names.  A frame derived from the shared one (boolean  *)
(* indexing, dropna, sample, nsmallest) is the sequence of the index       *)
(* labels of the rows it keeps: pandas carries the labels of the parent    *)
(* through each of these operations.                                       *)
(*                                                                         *)
(* Numbers are exact.  A mean, a squared z-score difference and a squared  *)
(* distance are rationals [num, den] with a nan flag; np.sqrt is strictly  *)
(* increasing on the non-negative reals, so the Distance column is kept as *)
(* its square and ordered by cross-multiplication.  Floating-point         *)
(* rounding is outside the model.                                          *)
(***************************************************************************)
EXTENDS Integers, Sequences, FiniteSets, TLC

VARIABLES
    df,      \* the shared dataset returned by load_data(): [cols, rows]
    query,   \* arguments of the call whose outcome is held: [permit_type, sq_ft, valuation, k]
    result   \* outcome of that call: [status, rows, cols, fee]

vars == <<df, query, result>>

----------------------------------------------------------------------------
(* Bounds of the model *)

MaxRows == 2        \* rows of a dataset with missing cells; one more in a dataset without
MaxVal == 2         \* cell values without a pattern, and query values, are 1..MaxVal
MaxK == 2           \* k ranges over -1..MaxK
RngStates == 6      \* states of the random generator

----------------------------------------------------------------------------
(* Values *)

\* A missing cell (NaN after pd.to_numeric(errors='coerce')) and an argument left at None.
NULL == -1

PermitTypes == {"Electrical", "Building"}

BaseColumns ==
    {"ZIP_Code", "Permit_Type", "Square_Feet", "Valuation", "Fees_Paid",
     "Valuation_clean", "Fees_Paid_clean"}

ScratchColumns == {"SqFt_Norm", "Valuation_Norm", "Distance"}

DisplayColumns == {"ZIP_Code", "Permit_Type", "Square_Feet", "Valuation", "Fees_Paid"}

\* The estimator only compares Permit_Type for equality, and Datasets is closed
\* under exchanging the two labels: every query asks for the first one.
QueriedType == "Electrical"

\* Which cells of a row are present.
Masks ==
    [Permit_Type : PermitTypes, Square_Feet : BOOLEAN,
     Valuation_clean : BOOLEAN, Fees_Paid_clean : BOOLEAN]

\* Row i of a dataset with missing cells: a cell that is present holds i.
MaskedRow(i, m) ==
    [Permit_Type |-> m.Permit_Type,
     Square_Feet |-> IF m.Square_Feet THEN i ELSE NULL,
     Valuation_clean |-> IF m.Valuation_clean THEN i ELSE NULL,
     Fees_Paid_clean |-> IF m.Fees_Paid_clean THEN i ELSE NULL]

\* Datasets of up to MaxRows rows of either type in which any cell may be missing.
MaskedDatasets ==
    UNION {{[i \in 1..n |-> MaskedRow(i, m[i])] : m \in [1..n -> Masks]} : n \in 0..MaxRows}

\* Row i of a dataset without missing cells: any square footage and valuation, fee i.
FullRow(i, v) ==
    [Permit_Type |-> QueriedType, Square_Feet |-> v[1],
     Valuation_clean |-> v[2], Fees_Paid_clean |-> i]

\* Datasets of MaxRows + 1 rows of the queried type in which no cell is missing.
FullDatasets ==
    {[i \in 1..(MaxRows + 1) |-> FullRow(i, v[i])] :
        v \in [1..(MaxRows + 1) -> (1..MaxVal) \X (1..MaxVal)]}

Datasets == MaskedDatasets \cup FullDatasets

Queries ==
    [permit_type : {QueriedType}, sq_ft : {NULL} \cup (0..MaxVal),
     valuation : {NULL} \cup (0..MaxVal), k : (-1)..MaxK]

----------------------------------------------------------------------------
(* Exact arithmetic *)

NaN == [nan |-> TRUE, num |-> 0, den |-> 1]

Rat(n, d) == [nan |-> FALSE, num |-> n, den |-> d]

RatEq(a, b) == (a.nan /\ b.nan) \/ (~a.nan /\ ~b.nan /\ a.num * b.den = b.num * a.den)

\* a < b as floats compare: false as soon as one side is NaN.
RatLess(a, b) == ~a.nan /\ ~b.nan /\ a.num * b.den < b.num * a.den

Min(a, b) == IF a < b THEN a ELSE b

----------------------------------------------------------------------------
(* Frames *)

Range(s) == {s[i] : i \in 1..Len(s)}

\* df[df['Permit_Type'] == permit_type]
FilterPermitType(d, pt) ==
    LET Keep(i) == d.rows[i].Permit_Type = pt
    IN  SelectSeq([i \in 1..Len(d.rows) |-> i], Keep)

\* frame.dropna(subset=...)
DropNa(d, idx, subset) ==
    LET Keep(i) == \A c \in subset : d.rows[i][c] # NULL
    IN  SelectSeq(idx, Keep)

RECURSIVE ColSum(_, _, _)
ColSum(d, idx, c) ==
    IF idx = <<>> THEN 0 ELSE d.rows[Head(idx)][c] + ColSum(d, Tail(idx), c)

RECURSIVE ColSumSq(_, _, _)
ColSumSq(d, idx, c) ==
    IF idx = <<>> THEN 0
    ELSE d.rows[Head(idx)][c] * d.rows[Head(idx)][c] + ColSumSq(d, Tail(idx), c)

\* frame[c].mean(): NaN on an empty frame.
Mean(d, idx, c) ==
    IF idx = <<>> THEN NaN ELSE Rat(ColSum(d, idx, c), Len(idx))

\* What frame[c].mean() and frame[c].std() are made of: the row count n, sum(x),
\* and n*sum(x^2) - sum(x)^2, which is n*(n-1) times the square of the sample
\* standard deviation (ddof=1).
Stats(d, idx, c) ==
    LET n == Len(idx)
        sum == ColSum(d, idx, c)
    IN  [n |-> n, sum |-> sum, varnum |-> n * ColSumSq(d, idx, c) - sum * sum]

\* The sample standard deviation is NaN on fewer than two rows.
StdDefined(st) == st.n >= 2

\* (x - mean) / std: the numerator cen = n*x - sum(x) of x - mean, kept with n and
\* varnum, so that the z-score is cen * sqrt((n-1) / (n*varnum)); nan for 0/0 and
\* for a missing std, inf for a non-zero numerator over std = 0.
Norm(st, x) ==
    LET cen == st.n * x - st.sum
    IN  [none |-> FALSE,
         nan |-> ~StdDefined(st) \/ (st.varnum = 0 /\ cen = 0),
         inf |-> StdDefined(st) /\ st.varnum = 0 /\ cen # 0,
         cen |-> cen, n |-> st.n, varnum |-> st.varnum]

\* sq_ft_norm / valuation_norm of an argument that is not truthy: None.
NoNorm == [none |-> TRUE, nan |-> FALSE, inf |-> FALSE, cen |-> 0, n |-> 0, varnum |-> 0]

\* (row_norm - query_norm) ** 2, both z-scores of one column of one frame.
SqDiff(zrow, zq) ==
    IF zrow.nan \/ zq.nan \/ zrow.inf \/ zq.inf
    THEN NaN
    ELSE Rat((zrow.cen - zq.cen) * (zrow.cen - zq.cen) * (zrow.n - 1),
             zrow.n * zrow.varnum)

RatAdd(a, b) ==
    IF a.nan \/ b.nan THEN NaN ELSE Rat(a.num * b.den + b.num * a.den, a.den * b.den)

RatMulInt(w, a) == IF a.nan THEN NaN ELSE Rat(w * a.num, a.den)

RatDivInt(a, t) == IF a.nan THEN NaN ELSE Rat(a.num, a.den * t)

----------------------------------------------------------------------------
(* find_similar_cases *)

\* `if sq_ft` / `if valuation`: None and 0 are both false.
Truthy(x) == x # NULL /\ x # 0

weight(x) == IF Truthy(x) THEN 1 ELSE 0

total_weight(sq, val) == weight(sq) + weight(val)

\* Variant: the rows of the permit type, with or without a fee.
Filtered_KeepsMissingFee(d, pt) == FilterPermitType(d, pt)

\* Line 30: rows of the permit type with a fee.
Filtered(d, pt) == DropNa(d, FilterPermitType(d, pt), {"Fees_Paid_clean"})

\* Variant: only Square_Feet is required.
Narrowed_SquareFeetOnly(d, pt) == DropNa(d, Filtered(d, pt), {"Square_Feet"})

\* Line 42: of those, the rows with both Square_Feet and Valuation_clean.
Narrowed(d, pt) == DropNa(d, Filtered(d, pt), {"Square_Feet", "Valuation_clean"})

\* calculate_distance(row), squared.  row holds the SqFt_Norm and Valuation_Norm of
\* a row; the other arguments are the variables the closure captures.
calculate_distance(row, sq_ft_norm, valuation_norm, weight_sq_ft, weight_valuation, tot_weight) ==
    LET dist_sq_ft ==
            IF ~sq_ft_norm.none THEN SqDiff(row.SqFt_Norm, sq_ft_norm) ELSE Rat(0, 1)
        dist_valuation ==
            IF ~valuation_norm.none
            THEN SqDiff(row.Valuation_Norm, valuation_norm)
            ELSE Rat(0, 1)
    IN  RatDivInt(RatAdd(RatMulInt(weight_sq_ft, dist_sq_ft),
                         RatMulInt(weight_valuation, dist_valuation)),
                  tot_weight)

\* Lines 47-58: the Distance column of the frame idx.  The rows and the query are
\* normalised with the mean and the standard deviation of the same frame.
DistanceColumn(d, idx, sq, val) ==
    LET st_sq_ft == Stats(d, idx, "Square_Feet")
        st_valuation == Stats(d, idx, "Valuation_clean")
        sq_ft_norm == IF Truthy(sq) THEN Norm(st_sq_ft, sq) ELSE NoNorm
        valuation_norm == IF Truthy(val) THEN Norm(st_valuation, val) ELSE NoNorm
    IN  [i \in Range(idx) |->
            calculate_distance(
                [SqFt_Norm |-> Norm(st_sq_ft, d.rows[i].Square_Feet),
                 Valuation_Norm |-> Norm(st_valuation, d.rows[i].Valuation_clean)],
                sq_ft_norm, valuation_norm,
                weight(sq), weight(val), total_weight(sq, val))]

\* Variant: i goes in front of the elements that are as far as it.
RECURSIVE InsertByDistance_BeforeTies(_, _, _)
InsertByDistance_BeforeTies(s, i, dist) ==
    IF s = <<>> THEN <<i>>
    ELSE IF ~RatLess(dist[Head(s)], dist[i]) THEN <<i>> \o s
    ELSE <<Head(s)>> \o InsertByDistance_BeforeTies(Tail(s), i, dist)

\* Stable insertion: i goes behind every element that is not farther than it.
RECURSIVE InsertByDistance(_, _, _)
InsertByDistance(s, i, dist) ==
    IF s = <<>> THEN <<i>>
    ELSE IF RatLess(dist[i], dist[Head(s)]) THEN <<i>> \o s
    ELSE <<Head(s)>> \o InsertByDistance(Tail(s), i, dist)

RECURSIVE SortByDistance(_, _)
SortByDistance(idx, dist) ==
    IF idx = <<>> THEN <<>>
    ELSE InsertByDistance(SortByDistance(SubSeq(idx, 1, Len(idx) - 1), dist),
                          idx[Len(idx)], dist)

\* frame.nsmallest(k, 'Distance'), keep='first': nothing for k <= 0; otherwise the
\* rows with a number, ascending and stable, then the NaN rows in frame order, cut at k.
nsmallest(idx, dist, k) ==
    IF k <= 0 THEN <<>>
    ELSE LET HasValue(i) == ~dist[i].nan
             IsNaN(i) == dist[i].nan
             dropped == SelectSeq(idx, HasValue)
             nan_index == SelectSeq(idx, IsNaN)
         IN  SubSeq(SortByDistance(dropped, dist) \o nan_index, 1, Min(k, Len(idx)))

RemoveAt(s, j) == SubSeq(s, 1, j - 1) \o SubSeq(s, j + 1, Len(s))

\* The permutation of idx drawn from generator state g.
RECURSIVE Shuffle(_, _)
Shuffle(g, idx) ==
    IF idx = <<>> THEN <<>>
    ELSE LET j == (g % Len(idx)) + 1
         IN  <<idx[j]>> \o Shuffle(g \div Len(idx), RemoveAt(idx, j))

\* Variant: the whole frame, shuffled, whatever n is.
Sample_WholeFrame(g, idx, n) == Shuffle(g, idx)

\* frame.sample(n): n rows without replacement, drawn with the global generator.
Sample(g, idx, n) == SubSeq(Shuffle(g, idx), 1, n)

\* Variant: the scratch columns are assigned through a view of the shared dataset.
FilterIsView_Shared == TRUE

\* The frame the scratch columns are assigned to shares its data with the shared
\* dataset: false, boolean indexing and dropna both build a new frame.
FilterIsView == FALSE

\* Variant: the fee of the unweighted branch over the sampled rows.
UnweightedFee_OverSample(d, filtered_df, sampled) == Mean(d, sampled, "Fees_Paid_clean")

\* Line 40: the fee of the unweighted branch, over the whole filtered frame.
UnweightedFee(d, filtered_df, sampled) == Mean(d, filtered_df, "Fees_Paid_clean")

\* Variant: the fee of the weighted branch over every complete row.
WeightedFee_OverAll(d, narrowed_df, closest_cases) == Mean(d, narrowed_df, "Fees_Paid_clean")

\* Line 61: the fee of the weighted branch, over the rows nsmallest kept.
WeightedFee(d, narrowed_df, closest_cases) == Mean(d, closest_cases, "Fees_Paid_clean")

\* return None, None
NoResult == [status |-> "none", rows |-> <<>>, cols |-> {}, fee |-> NaN]

\* frame.sample(n) with n < 0 raises ValueError.
Raised == [status |-> "raise", rows |-> <<>>, cols |-> {}, fee |-> NaN]

find_similar_cases(d, pt, sq, val, k, g) ==
    LET filtered_df == Filtered(d, pt)
        narrowed_df == Narrowed(d, pt)
        sampled == Sample(g, filtered_df, Min(k, Len(filtered_df)))
        closest_cases ==
            nsmallest(narrowed_df, DistanceColumn(d, narrowed_df, sq, val), k)
    IN  IF filtered_df = <<>> THEN NoResult
        ELSE IF total_weight(sq, val) = 0
        THEN IF Min(k, Len(filtered_df)) < 0
             THEN Raised
             ELSE [status |-> "ok",
                   rows |-> sampled,
                   cols |-> d.cols,
                   fee |-> UnweightedFee(d, filtered_df, sampled)]
        ELSE IF narrowed_df = <<>> THEN NoResult
        ELSE [status |-> "ok",
              rows |-> closest_cases,
              cols |-> DisplayColumns,
              fee |-> WeightedFee(d, narrowed_df, closest_cases)]

\* The call reaches frame.sample with a valid size.
Samples(d, pt, sq, val, k) ==
    Filtered(d, pt) # <<>> /\ total_weight(sq, val) = 0 /\ k >= 0

\* The call reaches the assignments of lines 47, 48 and 58.
Normalises(d, pt, sq, val) ==
    Filtered(d, pt) # <<>> /\ total_weight(sq, val) # 0 /\ Narrowed(d, pt) # <<>>

\* The shared dataset after the call.
SharedAfter(d, pt, sq, val) ==
    IF FilterIsView /\ Normalises(d, pt, sq, val)
    THEN [d EXCEPT !.cols = @ \cup ScratchColumns]
    ELSE d

----------------------------------------------------------------------------
(* State machine *)

NoQuery == [permit_type |-> "", sq_ft |-> NULL, valuation |-> NULL, k |-> 0]

NotCalled == [status |-> "init", rows |-> <<>>, cols |-> {}, fee |-> NaN]

Init ==
    /\ df \in [cols : {BaseColumns}, rows : Datasets]
    /\ query = NoQuery
    /\ result = NotCalled

\* One call of find_similar_cases on the shared dataset, with the state g of the
\* global generator as an input of a call that samples.
FindSimilarCases(q, g) ==
    /\ result.status = "init"
    /\ g = 0 \/ Samples(df, q.permit_type, q.sq_ft, q.valuation, q.k)
    /\ query' = q
    /\ result' = find_similar_cases(df, q.permit_type, q.sq_ft, q.valuation, q.k, g)
    /\ df' = SharedAfter(df, q.permit_type, q.sq_ft, q.valuation)

\* The caller drops the outcome of the call before the next one; the dataset stays.
Discard ==
    /\ result.status # "init"
    /\ query' = NoQuery
    /\ result' = NotCalled
    /\ UNCHANGED df

\* A call with any arguments and any generator state.
Call ==
    /\ result.status = "init"
    /\ \E q \in Queries, g \in 0..(RngStates - 1) : FindSimilarCases(q, g)

Next == Call \/ Discard

Spec == Init /\ [][Next]_vars

----------------------------------------------------------------------------
(* Vocabulary of the properties, stated on the dataset and the held call *)

Called == result.status # "init"

Active(x) == x # NULL /\ x # 0

AnyActive == Active(query.sq_ft) \/ Active(query.valuation)

Labels == 1..Len(df.rows)

\* Rows of the queried permit type that carry a fee.
Matching ==
    {i \in Labels : df.rows[i].Permit_Type = query.permit_type
                    /\ df.rows[i].Fees_Paid_clean # NULL}

\* Of those, the rows that carry both a square footage and a valuation.
Complete ==
    {i \in Matching : df.rows[i].Square_Feet # NULL /\ df.rows[i].Valuation_clean # NULL}

Eligible == IF AnyActive THEN Complete ELSE Matching

Returned == Range(result.rows)

Distinct(s) == \A p, q \in 1..Len(s) : p # q => s[p] # s[q]

Max(a, b) == IF a > b THEN a ELSE b

RECURSIVE SumOver(_, _)
SumOver(S, f) ==
    IF S = {} THEN 0
    ELSE LET x == CHOOSE y \in S : TRUE IN f[x] + SumOver(S \ {x}, f)

FeeSum(S) == SumOver(S, [i \in S |-> df.rows[i].Fees_Paid_clean])

\* fee is the arithmetic mean of the fees of the rows S (no number when S is empty).
MeanIs(fee, S) ==
    IF S = {} THEN fee.nan
    ELSE ~fee.nan /\ fee.num * Cardinality(S) = fee.den * FeeSum(S)

QueryValue(c) == IF c = "Square_Feet" THEN query.sq_ft ELSE query.valuation

DistanceColumns == {"Square_Feet", "Valuation_clean"}

ActiveColumns == {c \in DistanceColumns : Active(QueryValue(c))}

\* n*(n-1) times the sample variance of column c over Complete: the sum of the
\* squared differences of all pairs of rows.
PairSq(c) ==
    LET Pairs == {p \in Complete \X Complete : p[1] < p[2]}
    IN  SumOver(Pairs, [p \in Pairs |->
                           (df.rows[p[1]][c] - df.rows[p[2]][c])
                           * (df.rows[p[1]][c] - df.rows[p[2]][c])])

ZeroVariance(c) == \A i, j \in Complete : df.rows[i][c] = df.rows[j][c]

\* For each row of Complete, the square of its weighted distance: the average,
\* over the active columns, of the squared difference of the z-scores of the row
\* and of the query (both with the mean and the standard deviation of Complete),
\* a column outside `used` counting 0.
AverageSq(used) ==
    LET n == Cardinality(Complete)
        pairSqFt == PairSq("Square_Feet")
        pairVal == PairSq("Valuation_clean")
        Contribution(i, c) ==
            IF c \in used
            THEN Rat((df.rows[i][c] - QueryValue(c)) * (df.rows[i][c] - QueryValue(c))
                         * n * (n - 1),
                     IF c = "Square_Feet" THEN pairSqFt ELSE pairVal)
            ELSE Rat(0, 1)
    IN  [i \in Complete |->
            RatDivInt(RatAdd(Contribution(i, "Square_Feet"),
                             Contribution(i, "Valuation_clean")),
                      Cardinality(ActiveColumns))]

\* Row i ranks before row j under the distances D: nearer, or as near and earlier
\* in the dataset.
Before(D, i, j) == RatLess(D[i], D[j]) \/ (RatEq(D[i], D[j]) /\ i < j)

\* The returned rows are the count rows of Complete that rank first, in rank order:
\* each returned row ranks before the next one, and the last one before every row
\* that is not returned (Before is transitive).
RankedFirst(count, used) ==
    LET D == AverageSq(used)
        n == Len(result.rows)
    IN  /\ n = count
        /\ Returned \subseteq Complete
        /\ \A p \in 1..(n - 1) : Before(D, result.rows[p], result.rows[p + 1])
        /\ n > 0 => \A e \in Complete \ Returned : Before(D, result.rows[n], e)

EqualsQuery(i) == \A c \in ActiveColumns : df.rows[i][c] = QueryValue(c)

----------------------------------------------------------------------------
(* Properties *)

\* C1: for k >= 1 the call never raises; it returns (None, None) exactly when no
\* row of the queried type has a fee or, with an active dimension, when no such row
\* also has both Square_Feet and Valuation_clean; otherwise it returns at least one
\* neighbour and a fee that is a number.
C1_NoResultIffNoEligible ==
    (Called /\ query.k >= 1) =>
        /\ result.status # "raise"
        /\ (result.status = "none") <=> (Eligible = {})
        /\ Eligible # {} =>
               result.status = "ok" /\ result.rows # <<>> /\ ~result.fee.nan

\* C1 case: rows of the type carry a fee, a dimension is active, none is complete.
C1_Witness ==
    /\ Called /\ query.k >= 1 /\ AnyActive
    /\ Matching # {} /\ Complete = {}
    /\ result.status = "none"

\* C2 as stated: with no active dimension and a non-empty eligible set, whatever k
\* is, the fee is the mean over the whole eligible set and the rows are
\* min(k, eligible count) distinct eligible rows.
C2_AnyK ==
    (Called /\ ~AnyActive /\ Matching # {}) =>
        /\ result.status = "ok"
        /\ MeanIs(result.fee, Matching)
        /\ Len(result.rows) = Min(query.k, Cardinality(Matching))
        /\ Distinct(result.rows)
        /\ Returned \subseteq Matching

\* C2 amended: the same for every k >= 0; for k < 0 the call raises.
C2_UnweightedMeanOverAll ==
    (Called /\ ~AnyActive /\ Matching # {}) =>
        IF query.k >= 0
        THEN /\ result.status = "ok"
             /\ MeanIs(result.fee, Matching)
             /\ Len(result.rows) = Min(query.k, Cardinality(Matching))
             /\ Distinct(result.rows)
             /\ Returned \subseteq Matching
        ELSE result.status = "raise"

\* C2 case: square feet given as 0, fewer rows sampled than eligible, and the fee
\* is not the mean of the sampled rows.
C2_Witness ==
    /\ Called /\ query.sq_ft = 0 /\ ~AnyActive
    /\ result.status = "ok"
    /\ query.k >= 1 /\ query.k < Cardinality(Matching)
    /\ ~MeanIs(result.fee, Returned)

\* C3: with an active dimension and a defined, non-zero standard deviation on each
\* active dimension, the Distance of a row is the square root of the average over
\* the active dimensions of the squared z-score difference to the query, the
\* returned rows are the k nearest complete rows (all of them when there are fewer)
\* in ascending distance with ties in dataset order, and a row equal to the query
\* on the active dimensions has distance 0 and the first such row is returned first.
C3_NearestInOrder ==
    (/\ Called /\ AnyActive /\ Cardinality(Complete) >= 2
     /\ \A c \in ActiveColumns : PairSq(c) > 0) =>
        LET D == AverageSq(ActiveColumns)
            Distance == DistanceColumn(df, Narrowed(df, query.permit_type),
                                       query.sq_ft, query.valuation)
        IN  /\ result.status = "ok"
            /\ \A i \in Complete : RatEq(Distance[i], D[i])
            /\ RankedFirst(Min(Max(query.k, 0), Cardinality(Complete)), ActiveColumns)
            /\ \A i \in Complete :
                   EqualsQuery(i) =>
                       /\ D[i].num = 0
                       /\ query.k >= 1 => EqualsQuery(result.rows[1])
                       /\ (query.k >= 1 /\ \A j \in Complete : EqualsQuery(j) => i <= j)
                              => result.rows[1] = i

\* C3 case: both dimensions active, k below the number of complete rows, the
\* nearest row is not the first row of the dataset, and of two rows at the same
\* distance the earlier one is returned and the later one is not.
C3_Witness ==
    /\ Called /\ Cardinality(ActiveColumns) = 2
    /\ \A c \in ActiveColumns : PairSq(c) > 0
    /\ query.k >= 1 /\ query.k < Cardinality(Complete)
    /\ result.status = "ok"
    /\ result.rows[1] # 1
    /\ \E i \in Returned : \E j \in Complete \ Returned :
           RatEq(AverageSq(ActiveColumns)[i], AverageSq(ActiveColumns)[j])

\* C4: with an active dimension, the fee returned is the arithmetic mean of the
\* fees of exactly the rows returned, not of the whole eligible set.
C4_FeeOverNeighbours ==
    (Called /\ AnyActive /\ result.status = "ok") =>
        Distinct(result.rows) /\ MeanIs(result.fee, Returned)

\* C4 case: square feet queried, two of three complete rows returned, and the mean
\* over all three is another number.
C4_Witness ==
    /\ Called /\ Active(query.sq_ft) /\ result.status = "ok"
    /\ Cardinality(Complete) = 3 /\ query.k = 2 /\ Len(result.rows) = 2
    /\ ~MeanIs(result.fee, Complete)

\* C5: for k >= 1, on both branches, no error is raised, at most min(k, eligible
\* count) rows are returned, and when k exceeds the eligible count every eligible
\* row is returned.
C5_AtMostKRows ==
    (Called /\ query.k >= 1) =>
        /\ result.status # "raise"
        /\ Len(result.rows) <= Min(query.k, Cardinality(Eligible))
        /\ query.k > Cardinality(Eligible) =>
               Returned = Eligible /\ Len(result.rows) = Cardinality(Eligible)

\* C5 case: a weighted call with more rows asked for than are eligible.
C5_Witness ==
    /\ Called /\ AnyActive /\ result.status = "ok"
    /\ Cardinality(Eligible) >= 1 /\ query.k > Cardinality(Eligible)
    /\ Cardinality(Matching) > Cardinality(Eligible)

\* C6: every returned row is a row of the dataset of the queried permit type with a
\* fee, and with an active dimension it has both Square_Feet and Valuation_clean.
C6_ReturnedRowsEligible ==
    Called =>
        \A i \in Returned :
            /\ i \in Labels
            /\ df.rows[i].Permit_Type = query.permit_type
            /\ df.rows[i].Fees_Paid_clean # NULL
            /\ AnyActive =>
                   df.rows[i].Square_Feet # NULL /\ df.rows[i].Valuation_clean # NULL

\* C6 case: only square feet is queried, a row with a square footage and a fee but
\* no valuation exists, and other rows are returned.
C6_Witness ==
    /\ Called /\ Active(query.sq_ft) /\ ~Active(query.valuation)
    /\ result.status = "ok" /\ result.rows # <<>>
    /\ \E i \in Matching :
           df.rows[i].Square_Feet # NULL /\ df.rows[i].Valuation_clean = NULL

C8_ZeroVarianceAddsNothing ==
    (/\ Called /\ query.k >= 1 /\ Complete # {}
     /\ \E c \in ActiveColumns : ZeroVariance(c)) =>
        /\ result.status = "ok"
        /\ RankedFirst(Min(query.k, Cardinality(Complete)),
                       {c \in ActiveColumns : ~ZeroVariance(c)})

\* C10: a call with k <= 0 is rejected with an error on every branch.
C10_NonPositiveKRejected ==
    (Called /\ query.k <= 0) => result.status = "raise"

====
